---- MODULE Spec2Model ----
(***************************************************************************)
(* A model of the neurazor backend's scoring routes: the scoring_versions  *)
(* store with its active flag (save / set-active), the submit handler      *)
(* writing test_sessions and action_receipts, and the preview / compare    *)
(* handlers with calculateDifferences.                                     *)
(*                                                                         *)
(* Numbers: formula results and raw scores are integers; weights are in    *)
(* thousandths (0.5 is 500); a weighted score and the running total are    *)
(* therefore in thousandths of a point, and final_score, which the code    *)
(* rounds to two decimals, is in hundredths of a point.                    *)
(*                                                                         *)
(* A JSON object (request body, config, formulas, weights) is a function   *)
(* whose DOMAIN is the set of keys present; `!body.k` is "k" \notin DOMAIN.*)
(* Every handler is cut at its awaits: the synchronous code up to a store  *)
(* call belongs to the step before it, the store call is one step.         *)
(***************************************************************************)
EXTENDS Integers, Sequences, FiniteSets, TLC

\* ------------------------------------------------------------- bounds
\* save requests that get past validation (each draws one version name)
MaxVersions == 2
\* rows test_sessions may hold
MaxSessions == 1

\* request slots served concurrently
Procs == {1, 2}
GameTypeSeq == <<"memory", "reaction">>
GameTypes == {GameTypeSeq[i] : i \in 1..Len(GameTypeSeq)}
\* the competency names, in the order Object.entries / for..in visit them
CompOrder == <<"focus", "speed">>
Competencies == {CompOrder[i] : i \in 1..Len(CompOrder)}

VARIABLES
  scoring_versions,  \* the scoring_versions table: rows in insertion order
  version_seq,       \* the store's get_next_version_name counter, per game type
  test_sessions,     \* the test_sessions table
  action_receipts,   \* the action_receipts table
  pc,                \* per request slot: the await the handler stands at
  req,               \* per request slot: the request being served (op, body)
  local,             \* per request slot: the handler's local variables
  res                \* per request slot: the response sent

vars == <<scoring_versions, version_seq, test_sessions, action_receipts,
          pc, req, local, res>>
store == <<scoring_versions, version_seq, test_sessions, action_receipts>>

\* ------------------------------------------------------------- helpers
Max(a, b) == IF a >= b THEN a ELSE b
Min(a, b) == IF a <= b THEN a ELSE b

RECURSIVE SumSeq(_)
SumSeq(s) == IF s = <<>> THEN 0 ELSE Head(s) + SumSeq(Tail(s))

\* the keys of object m in iteration order
Keys(m) == SelectSeq(CompOrder, LAMBDA k : k \in DOMAIN m)

NoError == [message |-> "", competency |-> "", detail |-> ""]
Err(m, c, d) == [message |-> m, competency |-> c, detail |-> d]
NoResponse == [status |-> 0, success |-> FALSE, error |-> NoError, data |-> <<>>]
Failure(st, e) == [status |-> st, success |-> FALSE, error |-> e, data |-> <<>>]
Success(d) == [status |-> 200, success |-> TRUE, error |-> NoError, data |-> d]
NoRow == [id |-> 0]
NoLocals == [versionName |-> 0, config |-> NoRow, scores |-> <<>>, session |-> 0,
             comparisons |-> <<>>, differences |-> <<>>]
NoRequest == [op |-> "none", body |-> <<>>]

\* ------------------------------------------------- formula evaluator
\* services/formulaEvaluator: the formula texts the model uses and what they
\* validate and evaluate to.
ValidFormulas == {"accuracy * 2", "240 / accuracy"}
Formulas == ValidFormulas \cup {"accuracy +* 2"}

validateFormula(formula) ==
  IF formula \in ValidFormulas
  THEN [valid |-> TRUE, error |-> ""]
  ELSE [valid |-> FALSE, error |-> "ValidationError"]

\* evaluate: a number, or a thrown EvaluationError
evaluate(formula, variables) ==
  IF "accuracy" \notin DOMAIN variables
  THEN [ok |-> FALSE, value |-> 0, error |-> "UndefinedVariable"]
  ELSE IF formula = "accuracy * 2"
  THEN [ok |-> TRUE, value |-> variables.accuracy * 2, error |-> ""]
  ELSE IF formula = "240 / accuracy"
  THEN IF variables.accuracy = 0
       THEN [ok |-> FALSE, value |-> 0, error |-> "DivisionByZero"]
       ELSE [ok |-> TRUE, value |-> 240 \div variables.accuracy, error |-> ""]
  ELSE [ok |-> FALSE, value |-> 0, error |-> "ValidationError"]

\* testFormula: validate, then evaluate; a structured result, never a throw
testFormula(formula, variables) ==
  LET v == validateFormula(formula)
      e == evaluate(formula, variables)
  IN  IF ~v.valid THEN [success |-> FALSE, result |-> 0, error |-> v.error]
      ELSE IF ~e.ok THEN [success |-> FALSE, result |-> 0, error |-> e.error]
      ELSE [success |-> TRUE, result |-> e.value, error |-> ""]

\* ------------------------------------------------------ store queries
Rows == 1..Len(scoring_versions)
\* .eq('game_type', g).eq('is_active', true)
ActiveRows(g) ==
  {i \in Rows : scoring_versions[i].game_type = g /\ scoring_versions[i].is_active}
\* .eq('game_type', g).eq('version_name', n)
NamedRows(g, n) ==
  {i \in Rows : scoring_versions[i].game_type = g /\ scoring_versions[i].version_name = n}

formulasOf(config) ==
  IF "competency_formulas" \in DOMAIN config THEN config.competency_formulas ELSE <<>>

\* ------------------------------------------------------------ requests
Respond(p, r) ==
  /\ res' = [res EXCEPT ![p] = r]
  /\ pc' = [pc EXCEPT ![p] = "idle"]

Begin(p, op, body) ==
  /\ pc[p] = "idle"
  /\ req' = [req EXCEPT ![p] = [op |-> op, body |-> body]]
  /\ local' = [local EXCEPT ![p] = NoLocals]

Goto(p, label) ==
  /\ pc' = [pc EXCEPT ![p] = label]
  /\ res' = [res EXCEPT ![p] = NoResponse]

\* the configurations save requests carry
SaveConfigs ==
  { [competency_formulas |-> [focus |-> "accuracy * 2", speed |-> "240 / accuracy"],
     final_weights |-> [focus |-> 500, speed |-> 500]],
    [competency_formulas |-> [focus |-> "accuracy * 2", speed |-> "accuracy +* 2"],
     final_weights |-> [focus |-> 500, speed |-> 500]] }
SaveBodies ==
  {[game_type |-> g, config |-> c] : g \in GameTypes, c \in SaveConfigs}
    \cup {[game_type |-> g] : g \in {"memory"}}

\* the first competency whose formula fails validateFormula, "" when none does
SaveFirstInvalid_Skip(config) == ""
SaveFirstInvalid(config) ==
  LET bad == SelectSeq(Keys(formulasOf(config)),
                       LAMBDA k : ~validateFormula(formulasOf(config)[k]).valid)
  IN  IF bad = <<>> THEN "" ELSE Head(bad)

\* saves past validation, still running
SavesInFlight == Cardinality({q \in Procs : pc[q] \in {"save_rpc", "save_deactivate", "save_insert"}})
NamesDrawn == SumSeq([i \in 1..Len(GameTypeSeq) |-> version_seq[GameTypeSeq[i]]])

\* POST /save up to its first await: the field check and the validation loop
SaveStart(p, body) ==
  /\ Begin(p, "save", body)
  /\ NamesDrawn + SavesInFlight < MaxVersions
  /\ UNCHANGED store
  /\ IF "game_type" \notin DOMAIN body \/ "config" \notin DOMAIN body
     THEN Respond(p, Failure(400, Err("Missing required fields: game_type, config", "", "")))
     ELSE IF SaveFirstInvalid(body.config) # ""
     THEN Respond(p, Failure(400,
            Err("Invalid formula for", SaveFirstInvalid(body.config),
                validateFormula(formulasOf(body.config)[SaveFirstInvalid(body.config)]).error)))
     ELSE Goto(p, "save_rpc")

\* the store function get_next_version_name: a generated, monotonically
\* increasing version identifier per game type
get_next_version_name(p_game_type) == version_seq[p_game_type] + 1

\* rpc('get_next_version_name'): the store hands out the next name, or fails
SaveRpc(p) ==
  /\ pc[p] = "save_rpc"
  /\ UNCHANGED <<scoring_versions, test_sessions, action_receipts, req>>
  /\ \E ok \in BOOLEAN :
       LET g == req[p].body.game_type IN
       IF ok
       THEN /\ version_seq' = [version_seq EXCEPT ![g] = get_next_version_name(g)]
            /\ local' = [local EXCEPT ![p].versionName = get_next_version_name(g)]
            /\ Goto(p, "save_deactivate")
       ELSE /\ UNCHANGED <<version_seq, local>>
            /\ Respond(p, Failure(500, Err("PersistenceError", "", "rpc")))

\* update({is_active: false}).eq('game_type').eq('is_active', true); the handler
\* does not read the update's error, and the model lets the update succeed
SaveDeactivate(p) ==
  /\ pc[p] = "save_deactivate"
  /\ scoring_versions' =
       [i \in Rows |->
          IF i \in ActiveRows(req[p].body.game_type)
          THEN [scoring_versions[i] EXCEPT !.is_active = FALSE]
          ELSE scoring_versions[i]]
  /\ Goto(p, "save_insert")
  /\ UNCHANGED <<version_seq, test_sessions, action_receipts, req, local>>

\* insert({... is_active: true ...}).select().single(), which may fail
SaveInsert(p) ==
  /\ pc[p] = "save_insert"
  /\ UNCHANGED <<version_seq, test_sessions, action_receipts, req, local>>
  /\ \E ok \in BOOLEAN :
       LET newVersion == [id |-> Len(scoring_versions) + 1,
                          game_type |-> req[p].body.game_type,
                          version_name |-> local[p].versionName,
                          is_active |-> TRUE,
                          config |-> req[p].body.config]
       IN  IF ok
           THEN /\ scoring_versions' = Append(scoring_versions, newVersion)
                /\ Respond(p, Success(newVersion))
           ELSE /\ UNCHANGED scoring_versions
                /\ Respond(p, Failure(500, Err("PersistenceError", "", "insert")))

SetActiveBodies ==
  {[game_type |-> g, version_name |-> n] : g \in GameTypes, n \in 1..MaxVersions}
    \cup {[game_type |-> g] : g \in {"memory"}}

\* POST /set-active up to its first await
SetActiveStart(p, body) ==
  /\ Begin(p, "set-active", body)
  /\ UNCHANGED store
  /\ IF "game_type" \notin DOMAIN body \/ "version_name" \notin DOMAIN body
     THEN Respond(p, Failure(400, Err("Missing required fields: game_type, version_name", "", "")))
     ELSE Goto(p, "set_active_deactivate")

\* update({is_active: false}).eq('game_type')
SetActiveDeactivate(p) ==
  /\ pc[p] = "set_active_deactivate"
  /\ scoring_versions' =
       [i \in Rows |->
          IF scoring_versions[i].game_type = req[p].body.game_type
          THEN [scoring_versions[i] EXCEPT !.is_active = FALSE]
          ELSE scoring_versions[i]]
  /\ Goto(p, "set_active_activate")
  /\ UNCHANGED <<version_seq, test_sessions, action_receipts, req, local>>

\* update({is_active: true}).eq('game_type').eq('version_name').select().single():
\* an error unless exactly one row was updated
SetActiveActivate(p) ==
  /\ pc[p] = "set_active_activate"
  /\ LET hit == NamedRows(req[p].body.game_type, req[p].body.version_name)
         updated == [i \in Rows |->
                       IF i \in hit
                       THEN [scoring_versions[i] EXCEPT !.is_active = TRUE]
                       ELSE scoring_versions[i]]
     IN  /\ scoring_versions' = updated
         /\ IF Cardinality(hit) = 1
            THEN Respond(p, Success(updated[CHOOSE i \in hit : TRUE]))
            ELSE Respond(p, Failure(500, Err("PGRST116", "", "single")))
  /\ UNCHANGED <<version_seq, test_sessions, action_receipts, req, local>>

\* -------------------------------------------------------------- submit
\* services/variableExtractor: raw telemetry to the variable environment
extractVariables(game_type, raw_data) ==
  IF "accuracy" \in DOMAIN raw_data
  THEN [ok |-> TRUE, variables |-> [accuracy |-> raw_data.accuracy], error |-> ""]
  ELSE [ok |-> FALSE, variables |-> <<>>, error |-> "MissingTelemetryField"]

weightOf(weights, name) == IF name \in DOMAIN weights THEN weights[name] ELSE 0

\* Math.round(totalWeighted * 100) / 100, in hundredths, from thousandths
roundFinal_Truncate(totalWeighted) == totalWeighted \div 10
roundFinal(totalWeighted) == (totalWeighted + 5) \div 10

\* services/scoringCalculator.calculateScores: a ScoreResult, or a thrown
\* ScoringError naming the first competency whose formula failed
calculateScores(game_type, config, raw_data) ==
  LET env == extractVariables(game_type, raw_data)
      formulas == formulasOf(config)
      bad == SelectSeq(Keys(formulas),
                       LAMBDA k : ~testFormula(formulas[k], env.variables).success)
      comp == [k \in DOMAIN formulas |->
                 LET raw == Max(0, Min(100, testFormula(formulas[k], env.variables).result))
                     w == weightOf(config.final_weights, k)
                 IN  [raw |-> raw, weight |-> w, weighted |-> raw * w]]
  IN  IF ~env.ok THEN [ok |-> FALSE, scores |-> <<>>, error |-> Err("ScoringError", "", env.error)]
      ELSE IF bad # <<>>
      THEN [ok |-> FALSE, scores |-> <<>>,
            error |-> Err("ScoringError", Head(bad),
                          testFormula(formulas[Head(bad)], env.variables).error)]
      ELSE [ok |-> TRUE, error |-> NoError,
            scores |-> [final_score |->
                          roundFinal(SumSeq([i \in 1..Len(Keys(formulas)) |->
                                               comp[Keys(formulas)[i]].weighted])),
                        competencies |-> comp]]

RawData == {[accuracy |-> 0], [accuracy |-> 80]}
SubmitBodies ==
  {[game_type |-> g, user_id |-> "u1", raw_data |-> d] : g \in GameTypes, d \in RawData}
    \cup {[game_type |-> g, user_id |-> "u1"] : g \in {"memory"}}

\* POST /submit up to its first await
SubmitStart(p, body) ==
  /\ Begin(p, "submit", body)
  /\ Len(test_sessions) + Cardinality({q \in Procs : req[q].op = "submit" /\ pc[q] # "idle"})
       < MaxSessions
  /\ UNCHANGED store
  /\ IF "game_type" \notin DOMAIN body \/ "user_id" \notin DOMAIN body
        \/ "raw_data" \notin DOMAIN body
     THEN Respond(p, Failure(400,
            Err("Missing required fields: game_type, user_id, raw_data", "", "")))
     ELSE Goto(p, "submit_select")

\* what the handler does with the row(s) the select of the active version
\* returned: .single() is an error unless there is exactly one; then
\* calculateScores runs, and a throw goes to the catch
SubmitScoring_NoConfigCheck(rows, body) ==
  LET config == IF rows = {}
                THEN [id |-> 0, game_type |-> body.game_type, version_name |-> 0,
                      is_active |-> FALSE, config |-> <<>>]
                ELSE scoring_versions[CHOOSE i \in rows : TRUE]
      scored == calculateScores(body.game_type, config.config, body.raw_data)
  IN  IF ~scored.ok
      THEN [next |-> "idle", config |-> config, scores |-> <<>>,
            response |-> Failure(500, scored.error)]
      ELSE [next |-> "submit_insert_session", config |-> config,
            scores |-> scored.scores, response |-> NoResponse]
SubmitScoring(rows, body) ==
  IF Cardinality(rows) # 1
  THEN [next |-> "idle", config |-> NoRow, scores |-> <<>>,
        response |-> Failure(404, Err("No active scoring configuration found for",
                                      "", body.game_type))]
  ELSE LET config == scoring_versions[CHOOSE i \in rows : TRUE]
           scored == calculateScores(body.game_type, config.config, body.raw_data)
       IN  IF ~scored.ok
           THEN [next |-> "idle", config |-> config, scores |-> <<>>,
                 response |-> Failure(500, scored.error)]
           ELSE [next |-> "submit_insert_session", config |-> config,
                 scores |-> scored.scores, response |-> NoResponse]

\* select('*').eq('game_type').eq('is_active', true).single(), then the
\* synchronous code up to the insert of the session
SubmitSelect(p) ==
  /\ pc[p] = "submit_select"
  /\ LET out == SubmitScoring(ActiveRows(req[p].body.game_type), req[p].body)
     IN  /\ local' = [local EXCEPT ![p].config = out.config, ![p].scores = out.scores]
         /\ pc' = [pc EXCEPT ![p] = out.next]
         /\ res' = [res EXCEPT ![p] = out.response]
  /\ UNCHANGED <<store, req>>

\* from('test_sessions').insert({...}).select().single(), which may fail
SubmitInsertSession(p) ==
  /\ pc[p] = "submit_insert_session"
  /\ UNCHANGED <<scoring_versions, version_seq, action_receipts, req>>
  /\ \E ok \in BOOLEAN :
       LET session == [id |-> Len(test_sessions) + 1,
                       user_id |-> req[p].body.user_id,
                       game_type |-> req[p].body.game_type,
                       scoring_version_id |-> local[p].config.id,
                       status |-> "completed",
                       final_scores |-> local[p].scores]
       IN  IF ok
           THEN /\ test_sessions' = Append(test_sessions, session)
                /\ local' = [local EXCEPT ![p].session = session.id]
                /\ Goto(p, "submit_insert_receipt")
           ELSE /\ UNCHANGED <<test_sessions, local>>
                /\ Respond(p, Failure(500, Err("PersistenceError", "", "test_sessions")))

\* from('action_receipts').insert({session_id, raw_data}), which may fail
SubmitInsertReceipt(p) ==
  /\ pc[p] = "submit_insert_receipt"
  /\ UNCHANGED <<scoring_versions, version_seq, test_sessions, req, local>>
  /\ \E ok \in BOOLEAN :
       IF ok
       THEN /\ action_receipts' = Append(action_receipts,
                 [session_id |-> local[p].session, raw_data |-> req[p].body.raw_data])
            /\ Respond(p, Success([session_id |-> local[p].session,
                                   version_used |-> local[p].config.version_name,
                                   scores |-> local[p].scores]))
       ELSE /\ UNCHANGED action_receipts
            /\ Respond(p, Failure(500, Err("PersistenceError", "", "action_receipts")))

\* ------------------------------------------------------------- preview
TestData == {[accuracy |-> 0 - 10], [accuracy |-> 0], [accuracy |-> 80]}

\* const rawScore = Math.max(0, Math.min(100, testResponse.result))
PreviewRawScore_NoFloor(result) == Min(100, result)
PreviewRawScore(result) == Max(0, Min(100, result))

\* the loop of POST /preview over Object.entries(formulas): the first failing
\* competency ends the request; otherwise every competency gets its entry
previewScores_Partial(formulas, weights, test_variables) ==
  LET good == {k \in DOMAIN formulas : testFormula(formulas[k], test_variables).success}
      scores == [k \in good |->
                   LET rawScore == Max(0, Min(100, testFormula(formulas[k], test_variables).result))
                       weight == weightOf(weights, k)
                   IN  [raw |-> rawScore, weight |-> weight, weighted |-> rawScore * weight]]
      kept == SelectSeq(Keys(formulas), LAMBDA k : k \in good)
  IN  Success([scores |-> [final_score |->
                             roundFinal(SumSeq([i \in 1..Len(kept) |-> scores[kept[i]].weighted])),
                           competencies |-> scores],
               test_variables |-> test_variables])
previewScores(formulas, weights, test_variables) ==
  LET bad == SelectSeq(Keys(formulas),
                       LAMBDA k : ~testFormula(formulas[k], test_variables).success)
      scores == [k \in DOMAIN formulas |->
                   LET rawScore == PreviewRawScore(testFormula(formulas[k], test_variables).result)
                       weight == weightOf(weights, k)
                   IN  [raw |-> rawScore, weight |-> weight, weighted |-> rawScore * weight]]
      totalWeighted == SumSeq([i \in 1..Len(Keys(formulas)) |->
                                 scores[Keys(formulas)[i]].weighted])
  IN  IF bad # <<>>
      THEN Failure(200, Err("Formula error in", Head(bad),
                            testFormula(formulas[Head(bad)], test_variables).error))
      ELSE Success([scores |-> [final_score |-> roundFinal(totalWeighted),
                                competencies |-> scores],
                    test_variables |-> test_variables])

PreviewFormulaMaps ==
  {[focus |-> f] : f \in Formulas}
    \cup {[focus |-> f, speed |-> g] : f \in ValidFormulas, g \in Formulas}
PreviewWeightMaps == {<<>>, [focus |-> 500], [focus |-> 125, speed |-> 1000]}
PreviewBodies ==
  {[game_type |-> "memory", formulas |-> f, weights |-> w, test_variables |-> t] :
     f \in PreviewFormulaMaps, w \in PreviewWeightMaps, t \in TestData}
    \cup {[game_type |-> g] : g \in {"memory"}}

\* POST /preview: no store call, one step
PreviewRequest(p, body) ==
  /\ Begin(p, "preview", body)
  /\ UNCHANGED store
  /\ IF \E k \in {"game_type", "formulas", "weights", "test_variables"} : k \notin DOMAIN body
     THEN Respond(p, Failure(400,
            Err("Missing required fields: game_type, formulas, weights, test_variables", "", "")))
     ELSE Respond(p, previewScores(body.formulas, body.weights, body.test_variables))

\* ------------------------------------------------------------- compare
\* const rawScore = Math.max(0, Math.min(100, result))
CompareRawScore(result) == Max(0, Min(100, result))

\* one turn of the loop over the fetched versions: the comparison pushed, or
\* the error formulaEvaluator.evaluate threw
compareVersion(version, test_data) ==
  LET formulas == formulasOf(version.config)
      bad == SelectSeq(Keys(formulas), LAMBDA k : ~evaluate(formulas[k], test_data).ok)
      scores == [k \in DOMAIN formulas |->
                   LET rawScore == CompareRawScore(evaluate(formulas[k], test_data).value)
                       weight == weightOf(version.config.final_weights, k)
                   IN  [raw |-> rawScore, weight |-> weight, weighted |-> rawScore * weight,
                        formula |-> formulas[k]]]
      totalWeighted == SumSeq([i \in 1..Len(Keys(formulas)) |->
                                 scores[Keys(formulas)[i]].weighted])
  IN  IF bad # <<>>
      THEN [ok |-> FALSE, comparison |-> <<>>,
            error |-> Err(evaluate(formulas[Head(bad)], test_data).error, "", "thrown")]
      ELSE [ok |-> TRUE, error |-> NoError,
            comparison |-> [version_name |-> version.version_name,
                            version_id |-> version.id,
                            final_score |-> roundFinal(totalWeighted),
                            competencies |-> scores,
                            formulas |-> version.config.competency_formulas,
                            weights |-> version.config.final_weights]]

\* obj[key]: the value, or undefined
Lookup(obj, key) ==
  IF key \in DOMAIN obj THEN [defined |-> TRUE, value |-> obj[key]]
  ELSE [defined |-> FALSE, value |-> 0]
LookupText(obj, key) ==
  IF key \in DOMAIN obj THEN [defined |-> TRUE, value |-> obj[key]]
  ELSE [defined |-> FALSE, value |-> ""]

\* score_change: v2.final_score - v1.final_score
ScoreChange_Sum(v1, v2) == v2.final_score + v1.final_score
ScoreChange(v1, v2) == v2.final_score - v1.final_score

\* for (const key in v1.weights) if (v1.weights[key] !== v2.weights[key]) push
WeightChanges(v1, v2) ==
  LET changed == SelectSeq(Keys(v1.weights),
                           LAMBDA key : Lookup(v1.weights, key) # Lookup(v2.weights, key))
  IN  [i \in 1..Len(changed) |->
         [competency |-> changed[i],
          old_weight |-> Lookup(v1.weights, changed[i]),
          new_weight |-> Lookup(v2.weights, changed[i]),
          \* a number minus undefined is NaN: not defined
          change |-> IF changed[i] \in DOMAIN v2.weights
                     THEN [defined |-> TRUE,
                           value |-> v2.weights[changed[i]] - v1.weights[changed[i]]]
                     ELSE [defined |-> FALSE, value |-> 0]]]

\* for (const key in v1.formulas) if (v1.formulas[key] !== v2.formulas[key]) push
FormulaChanges(v1, v2) ==
  LET changed == SelectSeq(Keys(v1.formulas),
                           LAMBDA key : LookupText(v1.formulas, key) # LookupText(v2.formulas, key))
  IN  [i \in 1..Len(changed) |->
         [competency |-> changed[i],
          old_formula |-> LookupText(v1.formulas, changed[i]),
          new_formula |-> LookupText(v2.formulas, changed[i])]]

calculateDifferences(comparisons) ==
  [j \in 1..(Len(comparisons) - 1) |->
     LET v1 == comparisons[j]
         v2 == comparisons[j + 1]
     IN  [from |-> v1.version_name,
          to |-> v2.version_name,
          score_change |-> ScoreChange(v1, v2),
          weight_changes |-> WeightChanges(v1, v2),
          formula_changes |-> FormulaChanges(v1, v2)]]

\* the properties of `this` inside the arrow-function handlers: the module's
\* initial exports object, to which nothing is ever added
ThisProperties == {}

Range(seq) == {seq[i] : i \in 1..Len(seq)}
\* a select without an order clause returns the matching rows in any order
Orderings(S) ==
  {f \in [1..Cardinality(S) -> S] : \A i, j \in 1..Cardinality(S) : f[i] = f[j] => i = j}

CompareBodies ==
  {[game_type |-> "memory", version_ids |-> ids, test_data |-> t] :
     ids \in {<<1, 2>>, <<2, 1>>, <<1, 2, 3>>, <<1, 3>>}, t \in TestData}
    \cup {[game_type |-> "reaction", version_ids |-> <<1, 2>>, test_data |-> [accuracy |-> 80]],
          [game_type |-> "memory", version_ids |-> <<1>>, test_data |-> [accuracy |-> 80]]}

\* POST /compare up to its await
CompareStart(p, body) ==
  /\ Begin(p, "compare", body)
  /\ UNCHANGED store
  /\ IF "game_type" \notin DOMAIN body \/ "version_ids" \notin DOMAIN body
        \/ Len(body.version_ids) < 2
     THEN Respond(p, Failure(400, Err("Need at least 2 version IDs to compare", "", "")))
     ELSE Goto(p, "compare_select")

\* select('*').eq('game_type').in('id', version_ids) and the rest of the handler
CompareSelect(p) ==
  /\ pc[p] = "compare_select"
  /\ UNCHANGED <<store, req>>
  /\ \E order \in Orderings({i \in Rows :
                               /\ scoring_versions[i].game_type = req[p].body.game_type
                               /\ scoring_versions[i].id \in Range(req[p].body.version_ids)}) :
       LET versions == [i \in 1..Len(order) |-> scoring_versions[order[i]]]
           turns == [i \in 1..Len(versions) |-> compareVersion(versions[i], req[p].body.test_data)]
           thrown == SelectSeq(turns, LAMBDA t : ~t.ok)
           comparisons == [i \in 1..Len(turns) |-> turns[i].comparison]
       IN  IF Len(versions) < 2
           THEN /\ Respond(p, Failure(404, Err("Could not find all specified versions", "", "")))
                /\ UNCHANGED local
           ELSE IF thrown # <<>>
           THEN /\ Respond(p, Failure(500, Head(thrown).error))
                /\ UNCHANGED local
           ELSE IF "calculateDifferences" \in ThisProperties
           THEN /\ Respond(p, Success([comparisons |-> comparisons,
                                       differences |-> calculateDifferences(comparisons),
                                       test_data |-> req[p].body.test_data]))
                /\ local' = [local EXCEPT ![p].comparisons = comparisons]
           ELSE /\ Respond(p, Failure(500,
                       Err("this.calculateDifferences is not a function", "", "TypeError")))
                /\ local' = [local EXCEPT ![p].comparisons = comparisons]

\* calculateDifferences applied to the comparisons a compare request built
CalculateDifferencesCall(p) ==
  /\ pc[p] = "idle"
  /\ req[p].op = "compare"
  /\ local[p].comparisons # <<>>
  /\ local[p].differences = <<>>
  /\ local' = [local EXCEPT ![p].differences = calculateDifferences(local[p].comparisons)]
  /\ UNCHANGED <<store, pc, req, res>>

\* ---------------------------------------------------------------- Spec
Init ==
  /\ scoring_versions = <<>>
  /\ version_seq = [g \in GameTypes |-> 0]
  /\ test_sessions = <<>>
  /\ action_receipts = <<>>
  /\ pc = [p \in Procs |-> "idle"]
  /\ req = [p \in Procs |-> NoRequest]
  /\ local = [p \in Procs |-> NoLocals]
  /\ res = [p \in Procs |-> NoResponse]

\* save and set-active requests served concurrently
Next ==
  \/ \E p \in Procs, body \in SaveBodies : SaveStart(p, body)
  \/ \E p \in Procs : SaveRpc(p)
  \/ \E p \in Procs : SaveDeactivate(p)
  \/ \E p \in Procs : SaveInsert(p)
  \/ \E p \in Procs, body \in SetActiveBodies : SetActiveStart(p, body)
  \/ \E p \in Procs : SetActiveDeactivate(p)
  \/ \E p \in Procs : SetActiveActivate(p)

Spec == Init /\ [][Next]_vars

\* the requests run one at a time: a single request slot
NextSeq ==
  \/ \E body \in SaveBodies : SaveStart(1, body)
  \/ SaveRpc(1)
  \/ SaveDeactivate(1)
  \/ SaveInsert(1)
  \/ \E body \in SetActiveBodies : SetActiveStart(1, body)
  \/ SetActiveDeactivate(1)
  \/ SetActiveActivate(1)

SpecSeq == Init /\ [][NextSeq]_vars

\* submit requests in slot 2 while slot 1 serves save and set-active requests
NextSubmit ==
  \/ \E body \in SaveBodies : SaveStart(1, body)
  \/ SaveRpc(1)
  \/ SaveDeactivate(1)
  \/ SaveInsert(1)
  \/ \E body \in SetActiveBodies : SetActiveStart(1, body)
  \/ SetActiveDeactivate(1)
  \/ SetActiveActivate(1)
  \/ \E body \in SubmitBodies : SubmitStart(2, body)
  \/ SubmitSelect(2)
  \/ SubmitInsertSession(2)
  \/ SubmitInsertReceipt(2)

SpecSubmit == Init /\ [][NextSubmit]_vars

\* the versions compare requests find in the store
StoredFormulaMaps ==
  {<<>>, [focus |-> "accuracy * 2"], [focus |-> "240 / accuracy"], [speed |-> "accuracy * 2"],
   [focus |-> "accuracy * 2", speed |-> "240 / accuracy"]}
StoredWeightMaps ==
  {<<>>, [focus |-> 125], [focus |-> 500], [speed |-> 500], [focus |-> 125, speed |-> 500]}
StoredConfigs ==
  {[competency_formulas |-> f, final_weights |-> w] :
     f \in StoredFormulaMaps, w \in StoredWeightMaps}

TwoVersions(c1, c2) ==
  << [id |-> 1, game_type |-> "memory", version_name |-> 1, is_active |-> FALSE, config |-> c1],
     [id |-> 2, game_type |-> "memory", version_name |-> 2, is_active |-> TRUE, config |-> c2] >>

\* two versions of "memory" saved one after the other, the second one active
InitCompare ==
  /\ \E c1 \in StoredConfigs, c2 \in StoredConfigs : scoring_versions = TwoVersions(c1, c2)
  /\ version_seq = [g \in GameTypes |-> IF g = "memory" THEN 2 ELSE 0]
  /\ test_sessions = <<>>
  /\ action_receipts = <<>>
  /\ pc = [p \in Procs |-> "idle"]
  /\ req = [p \in Procs |-> NoRequest]
  /\ local = [p \in Procs |-> NoLocals]
  /\ res = [p \in Procs |-> NoResponse]

\* compare requests, which only read the store, in one slot, and
\* calculateDifferences on what they built
NextCompare ==
  \/ \E body \in CompareBodies : CompareStart(1, body)
  \/ CompareSelect(1)
  \/ CalculateDifferencesCall(1)

SpecCompare == InitCompare /\ [][NextCompare]_vars

\* preview and compare requests over versions that differ in their formulas
ScoringConfigs ==
  {[competency_formulas |-> f, final_weights |-> [focus |-> 125, speed |-> 500]] :
     f \in StoredFormulaMaps}

InitScoring ==
  /\ \E c1 \in ScoringConfigs, c2 \in ScoringConfigs : scoring_versions = TwoVersions(c1, c2)
  /\ version_seq = [g \in GameTypes |-> IF g = "memory" THEN 2 ELSE 0]
  /\ test_sessions = <<>>
  /\ action_receipts = <<>>
  /\ pc = [p \in Procs |-> "idle"]
  /\ req = [p \in Procs |-> NoRequest]
  /\ local = [p \in Procs |-> NoLocals]
  /\ res = [p \in Procs |-> NoResponse]

NextScoring ==
  \/ \E body \in PreviewBodies : PreviewRequest(1, body)
  \/ \E body \in CompareBodies : CompareStart(1, body)
  \/ CompareSelect(1)

SpecScoring == InitScoring /\ [][NextScoring]_vars

\* ============================================================== claims

\* C1 (Spec): for every game type, under any interleaving of concurrent save
\* and set-active requests, no reachable state has two versions of that game
\* type with is_active = true.
C1_AtMostOneActive ==
  \A g \in GameTypes : Cardinality(ActiveRows(g)) <= 1

\* C2 (SpecSeq): once a game type has a saved version, whenever no request is
\* running (every request, run one at a time, has completed, successfully or
\* not) exactly one version of that game type is active.
C2_ExactlyOneActiveAfterRequest ==
  \A g \in GameTypes :
    (pc[1] = "idle" /\ \E i \in Rows : scoring_versions[i].game_type = g)
      => Cardinality(ActiveRows(g)) = 1

\* C3 (SpecSubmit): a step of a submit request writes a session row or a
\* receipt row only if the request found an active configuration of its game
\* type and calculateScores returned scores for it; the step that looks the
\* configuration up ends the request with 404 when there is none and with
\* the scoring error when calculateScores fails, writing no row and returning
\* no scores, the request having written no session before.
C3_SubmitAllOrNothing ==
  [][ /\ (test_sessions' # test_sessions \/ action_receipts' # action_receipts)
          => /\ req[2].op = "submit"
             /\ local[2].config # NoRow
             /\ local[2].config.is_active
             /\ local[2].config.game_type = req[2].body.game_type
             /\ \E i \in Rows : scoring_versions[i].id = local[2].config.id
             /\ calculateScores(req[2].body.game_type, local[2].config.config,
                                req[2].body.raw_data).ok
             /\ local[2].scores = calculateScores(req[2].body.game_type,
                                    local[2].config.config, req[2].body.raw_data).scores
      /\ (pc[2] = "submit_select" /\ pc'[2] # "submit_select")
          => LET active == ActiveRows(req[2].body.game_type)
                 failed == /\ Cardinality(active) = 1
                           /\ ~calculateScores(req[2].body.game_type,
                                 scoring_versions[CHOOSE i \in active : TRUE].config,
                                 req[2].body.raw_data).ok
             IN  /\ active = {} => res'[2].status = 404
                 /\ failed => res'[2].status = 500 /\ res'[2].error.message = "ScoringError"
                 /\ (active = {} \/ failed)
                      => /\ pc'[2] = "idle"
                         /\ ~res'[2].success
                         /\ res'[2].data = <<>>
                         /\ local'[2].session = 0
                         /\ test_sessions' = test_sessions
                         /\ action_receipts' = action_receipts ]_vars

\* a submit whose scoring failed on the active configuration: nothing written
C3_Witness ==
  /\ req[2].op = "submit"
  /\ pc[2] = "idle"
  /\ res[2].status = 500
  /\ res[2].error.message = "ScoringError"
  /\ ActiveRows(req[2].body.game_type) # {}
  /\ test_sessions = <<>>
  /\ action_receipts = <<>>

InvalidCompetencies(config) ==
  {k \in DOMAIN formulasOf(config) : ~validateFormula(formulasOf(config)[k]).valid}

\* C4 (Spec): a save request whose configuration holds an invalid formula
\* never stands at a store call (no version name requested, no version
\* deactivated, none inserted): it has ended with status 400 and an error
\* naming a competency whose formula is invalid; and no stored version holds
\* an invalid formula.
C4_SaveValidatesFirst ==
  /\ \A p \in Procs :
       (req[p].op = "save" /\ "config" \in DOMAIN req[p].body
          /\ "game_type" \in DOMAIN req[p].body
          /\ InvalidCompetencies(req[p].body.config) # {})
       => /\ pc[p] = "idle"
          /\ res[p].status = 400
          /\ ~res[p].success
          /\ res[p].error.message = "Invalid formula for"
          /\ res[p].error.competency \in InvalidCompetencies(req[p].body.config)
          /\ local[p].versionName = 0
  /\ \A i \in Rows : InvalidCompetencies(scoring_versions[i].config) = {}

\* an invalid save rejected while the store holds an active version
C4_Witness ==
  \E p \in Procs :
    /\ req[p].op = "save"
    /\ res[p].status = 400
    /\ res[p].error.competency = "speed"
    /\ ActiveRows(req[p].body.game_type) # {}

\* the rows a compare request's select matches
Found(body) ==
  {i \in Rows : /\ scoring_versions[i].game_type = body.game_type
                /\ scoring_versions[i].id \in Range(body.version_ids)}

\* C5 (SpecCompare): a completed compare request for which at least 2 of the
\* requested versions are found and every formula evaluates without failure
\* has a success response holding the comparisons and the differences.
C5_CompareSucceeds ==
  (/\ req[1].op = "compare"
   /\ pc[1] = "idle"
   /\ Len(req[1].body.version_ids) >= 2
   /\ Cardinality(Found(req[1].body)) >= 2
   /\ \A i \in Found(req[1].body) :
        \A k \in DOMAIN formulasOf(scoring_versions[i].config) :
          evaluate(formulasOf(scoring_versions[i].config)[k], req[1].body.test_data).ok)
    => /\ res[1].status = 200
       /\ res[1].success
       /\ {"comparisons", "differences"} \subseteq DOMAIN res[1].data

\* C6 (SpecCompare): the comparisons a compare request builds are those of
\* the N version ids it names, in the order it names them, and
\* calculateDifferences gives N-1 differences, number i between the i-th and
\* the (i+1)-th of them.
C6_RequestOrder ==
  (req[1].op = "compare" /\ local[1].differences # <<>>)
    => LET ids == req[1].body.version_ids
           cs == local[1].comparisons
           ds == local[1].differences
       IN  /\ Len(cs) = Len(ids)
           /\ Len(ds) = Len(ids) - 1
           /\ \A i \in 1..Len(cs) : i <= Len(ids) => cs[i].version_id = ids[i]
           /\ \A i \in 1..Len(ds) :
                /\ ds[i].from = cs[i].version_name
                /\ ds[i].to = cs[i + 1].version_name

Entries(changes) == {changes[i].competency : i \in 1..Len(changes)}

\* C7 (SpecCompare): for every consecutive pair, weight_changes has an entry
\* for a competency iff it is a key of either side's weights and its value
\* differs between the sides, absence counting as a value of its own.
C7_WeightChangesEitherSide ==
  (req[1].op = "compare" /\ local[1].differences # <<>>)
    => \A j \in 1..Len(local[1].differences) :
         LET w1 == local[1].comparisons[j].weights
             w2 == local[1].comparisons[j + 1].weights
         IN  \A k \in Competencies :
               (k \in Entries(local[1].differences[j].weight_changes))
                 <=> (/\ k \in DOMAIN w1 \cup DOMAIN w2
                      /\ Lookup(w1, k) # Lookup(w2, k))

\* C8 (SpecCompare): for every consecutive pair, formula_changes has an entry
\* for a competency iff its formula text in 'from' is not identical to its
\* formula text in 'to', a formula present on one side only included.
C8_FormulaChangesEitherSide ==
  (req[1].op = "compare" /\ local[1].differences # <<>>)
    => \A j \in 1..Len(local[1].differences) :
         LET f1 == local[1].comparisons[j].formulas
             f2 == local[1].comparisons[j + 1].formulas
         IN  \A k \in Competencies :
               (k \in Entries(local[1].differences[j].formula_changes))
                 <=> (LookupText(f1, k) # LookupText(f2, k))

\* the stored version a comparison was computed from
VersionOf(comparison) ==
  scoring_versions[CHOOSE i \in Rows : scoring_versions[i].id = comparison.version_id]

\* C9 (SpecCompare): a pair of comparisons computed from the same
\* configuration on the same test data has no weight change, no formula
\* change and a score change of 0.
C9_SelfCompareEmpty ==
  (req[1].op = "compare" /\ local[1].differences # <<>>)
    => \A j \in 1..Len(local[1].differences) :
         (VersionOf(local[1].comparisons[j]).config
            = VersionOf(local[1].comparisons[j + 1]).config)
         => /\ local[1].differences[j].weight_changes = <<>>
            /\ local[1].differences[j].formula_changes = <<>>
            /\ local[1].differences[j].score_change = 0

\* two versions of one configuration with weights, formulas and a score
C9_Witness ==
  /\ req[1].op = "compare"
  /\ local[1].differences # <<>>
  /\ scoring_versions[1].config = scoring_versions[2].config
  /\ DOMAIN scoring_versions[1].config.final_weights = Competencies
  /\ DOMAIN scoring_versions[1].config.competency_formulas = Competencies
  /\ local[1].comparisons[1].final_score > 0
  /\ local[1].differences[1].score_change = 0

Clamped(result) == IF result < 0 THEN 0 ELSE IF result > 100 THEN 100 ELSE result

\* C10 (SpecScoring): in the scores of a successful preview and in the
\* comparisons a compare request builds, each competency's raw score is the
\* formula's result brought into [0,100]: 0 below, 100 above, itself inside.
C10_RawClamped ==
  /\ (req[1].op = "preview" /\ res[1].success)
       => \A k \in DOMAIN req[1].body.formulas :
            LET raw == res[1].data.scores.competencies[k].raw
            IN  /\ raw \in 0..100
                /\ raw = Clamped(testFormula(req[1].body.formulas[k],
                                             req[1].body.test_variables).result)
  /\ (req[1].op = "compare" /\ local[1].comparisons # <<>>)
       => \A i \in 1..Len(local[1].comparisons) :
            \A k \in DOMAIN local[1].comparisons[i].competencies :
              LET c == local[1].comparisons[i].competencies[k]
              IN  /\ c.raw \in 0..100
                  /\ c.raw = Clamped(evaluate(c.formula, req[1].body.test_data).value)

\* a preview whose formulas evaluate to 160 and to 3
C10_Witness ==
  /\ req[1].op = "preview"
  /\ res[1].success
  /\ DOMAIN req[1].body.formulas = Competencies
  /\ testFormula(req[1].body.formulas.focus, req[1].body.test_variables).result > 100
  /\ res[1].data.scores.competencies.focus.raw = 100
  /\ res[1].data.scores.competencies.speed.raw = 3

RECURSIVE SumOver(_, _)
\* the sum of f over the set S
SumOver(S, f) ==
  IF S = {} THEN 0
  ELSE LET k == CHOOSE x \in S : TRUE IN f[k] + SumOver(S \ {k}, f)

\* hundredths h is thousandths t rounded to two decimals, halves upwards
IsRounded2(h, t) == 10 * h <= t + 5 /\ t + 5 < 10 * h + 10

DefaultZero(weights, k) == IF k \in DOMAIN weights THEN weights[k] ELSE 0

\* C11 (SpecScoring): final_score is the sum, over the competencies named in
\* the formulas mapping and no others, of clamped raw score times weight (0
\* when the weights mapping has no entry), rounded to 2 decimals and not
\* capped; in a successful preview and in every comparison compare builds.
C11_FinalScoreIsRoundedSum ==
  /\ (req[1].op = "preview" /\ res[1].success)
       => LET b == req[1].body
              term == [k \in DOMAIN b.formulas |->
                         Clamped(testFormula(b.formulas[k], b.test_variables).result)
                           * DefaultZero(b.weights, k)]
          IN  IsRounded2(res[1].data.scores.final_score, SumOver(DOMAIN b.formulas, term))
  /\ (req[1].op = "compare" /\ local[1].comparisons # <<>>)
       => \A i \in 1..Len(local[1].comparisons) :
            LET config == VersionOf(local[1].comparisons[i]).config
                term == [k \in DOMAIN config.competency_formulas |->
                           Clamped(evaluate(config.competency_formulas[k],
                                            req[1].body.test_data).value)
                             * DefaultZero(config.final_weights, k)]
            IN  IsRounded2(local[1].comparisons[i].final_score,
                           SumOver(DOMAIN config.competency_formulas, term))

\* a preview of 3 x 0.125 = 0.375, rounded to 0.38, where speed has a weight
\* and no formula
C11_Witness ==
  /\ req[1].op = "preview"
  /\ res[1].success
  /\ DOMAIN req[1].body.formulas = {"focus"}
  /\ DOMAIN req[1].body.weights = {"focus", "speed"}
  /\ res[1].data.scores.competencies.focus.weighted = 375
  /\ res[1].data.scores.final_score = 38

\* the competencies of a preview request whose formula fails
PreviewFailing(body) ==
  {k \in DOMAIN body.formulas : ~testFormula(body.formulas[k], body.test_variables).success}

\* C12 (SpecScoring): a preview request one of whose formulas fails
\* validation or evaluation gets a failure naming a failing competency and
\* no scores at all; it gets scores, one entry per formula, only when every
\* formula succeeded.
C12_PreviewAllOrNothing ==
  (/\ req[1].op = "preview"
   /\ {"game_type", "formulas", "weights", "test_variables"} \subseteq DOMAIN req[1].body)
    => /\ PreviewFailing(req[1].body) # {}
            => /\ ~res[1].success
               /\ res[1].error.message = "Formula error in"
               /\ res[1].error.competency \in PreviewFailing(req[1].body)
               /\ res[1].data = <<>>
       /\ res[1].success => PreviewFailing(req[1].body) = {}
       /\ PreviewFailing(req[1].body) = {}
            => /\ res[1].success
               /\ DOMAIN res[1].data.scores.competencies = DOMAIN req[1].body.formulas

\* focus evaluates, speed does not: the failure names speed, no score of focus
C12_Witness ==
  /\ req[1].op = "preview"
  /\ "formulas" \in DOMAIN req[1].body
  /\ DOMAIN req[1].body.formulas = Competencies
  /\ testFormula(req[1].body.formulas.focus, req[1].body.test_variables).success
  /\ ~res[1].success
  /\ res[1].error.competency = "speed"
  /\ res[1].data = <<>>

\* C13 (SpecSubmit): when no submit request is running, every row of
\* test_sessions has a row in action_receipts with its id, and the last
\* submit request reported success iff it wrote its session row.
C13_SessionHasReceipt ==
  pc[2] = "idle"
    => /\ \A i \in 1..Len(test_sessions) :
            \E j \in 1..Len(action_receipts) :
              action_receipts[j].session_id = test_sessions[i].id
       /\ req[2].op = "submit" => (res[2].success <=> local[2].session # 0)
====
